---- MODULE Spec2Model ----
(***************************************************************************)
(* Weight functions of pallet_identity for the Westend runtime             *)
(* (runtime/westend/src/weights/pallet_identity.rs).                       *)
(*                                                                         *)
(* Every weight function is a chain of u64 saturating additions over a     *)
(* base cost, coefficient * parameter products and database read / write   *)
(* costs.  Parameters are u32, Weight is u64.  TLC's integers are 32 bits  *)
(* wide, so a Weight is held as the sequence of its base-10000 digits,     *)
(* least significant first, without leading zero digits (<<>> is 0); the   *)
(* arithmetic below is exact on that representation and the saturating     *)
(* operations clamp at 2^64 - 1 as u64's do.                               *)
(***************************************************************************)
EXTENDS Integers, Sequences, FiniteSets

VARIABLES dbRead, dbWrite, call, ret, pending, acc, frames, first

vars == <<dbRead, dbWrite, call, ret, pending, acc, frames, first>>

-----------------------------------------------------------------------------
(* Exact natural-number arithmetic on digit sequences.                     *)

RECURSIVE ToBig(_)
ToBig(n) == IF n = 0 THEN <<>> ELSE <<n % 10000>> \o ToBig(n \div 10000)

Digit(a, i) == IF i <= Len(a) THEN a[i] ELSE 0

RECURSIVE AddFrom(_, _, _, _)
AddFrom(a, b, i, c) ==
    IF i > Len(a) /\ i > Len(b)
    THEN IF c = 0 THEN <<>> ELSE <<c>>
    ELSE LET x == Digit(a, i) + Digit(b, i) + c
         IN  <<x % 10000>> \o AddFrom(a, b, i + 1, x \div 10000)

BigAdd(a, b) == AddFrom(a, b, 1, 0)

RECURSIVE MulDigitFrom(_, _, _, _)
MulDigitFrom(a, d, i, c) ==
    IF i > Len(a)
    THEN IF c = 0 THEN <<>> ELSE <<c>>
    ELSE LET x == a[i] * d + c
         IN  <<x % 10000>> \o MulDigitFrom(a, d, i + 1, x \div 10000)

MulDigit(a, d) == IF d = 0 THEN <<>> ELSE MulDigitFrom(a, d, 1, 0)

ShiftUp(a) == IF a = <<>> THEN <<>> ELSE <<0>> \o a

RECURSIVE MulFrom(_, _, _)
MulFrom(a, b, j) ==
    IF j > Len(b) THEN <<>>
    ELSE BigAdd(MulDigit(a, b[j]), ShiftUp(MulFrom(a, b, j + 1)))

BigMul(a, b) == IF a = <<>> \/ b = <<>> THEN <<>> ELSE MulFrom(a, b, 1)

RECURSIVE LeqFrom(_, _, _)
LeqFrom(a, b, i) ==
    \/ i = 0
    \/ a[i] < b[i]
    \/ a[i] = b[i] /\ LeqFrom(a, b, i - 1)

BigLeq(a, b) ==
    \/ Len(a) < Len(b)
    \/ Len(a) = Len(b) /\ LeqFrom(a, b, Len(a))

BigLt(a, b) == BigLeq(a, b) /\ a # b

RECURSIVE Trim(_)
Trim(a) ==
    IF a = <<>> THEN <<>>
    ELSE IF a[Len(a)] = 0 THEN Trim(SubSeq(a, 1, Len(a) - 1)) ELSE a

RECURSIVE SubFrom(_, _, _, _)
SubFrom(a, b, i, c) ==
    IF i > Len(a) THEN <<>>
    ELSE LET x == a[i] - Digit(b, i) - c
         IN  IF x < 0 THEN <<x + 10000>> \o SubFrom(a, b, i + 1, 1)
                      ELSE <<x>> \o SubFrom(a, b, i + 1, 0)

\* a - b for b <= a.
BigSub(a, b) == Trim(SubFrom(a, b, 1, 0))

-----------------------------------------------------------------------------
(* The integer types of the code.                                          *)

\* u32::MAX = 2^32 - 1 = (2^16 - 1) * (2^16 + 1)
U32_MAX == BigMul(ToBig(65535), ToBig(65537))

\* u64::MAX = 2^64 - 1 = (2^32 - 1) * (2^32 + 1)
U64_MAX == BigMul(U32_MAX, BigAdd(U32_MAX, ToBig(2)))

\* 2^64
TwoPow64 == BigAdd(U64_MAX, ToBig(1))

\* `(n as Weight)` for an integer literal n.
AsWeight(n) == ToBig(n)

\* u64::wrapping_add: the sum reduced modulo 2^64.
wrapping_add(a, b) ==
    LET s == BigAdd(a, b)
    IN  IF BigLeq(s, U64_MAX) THEN s ELSE BigSub(s, TwoPow64)

\* checked_add(..).unwrap_or_default(): 0 on overflow.
checked_add_or_zero(a, b) ==
    LET s == BigAdd(a, b)
    IN  IF BigLeq(s, U64_MAX) THEN s ELSE <<>>

\* u64::saturating_add
saturating_add(a, b) ==
    LET s == BigAdd(a, b)
    IN  IF BigLeq(s, U64_MAX) THEN s ELSE U64_MAX

\* checked_mul(..).unwrap_or_default(): 0 on overflow.
checked_mul_or_zero(a, b) ==
    LET p == BigMul(a, b)
    IN  IF BigLeq(p, U64_MAX) THEN p ELSE <<>>

\* u64::saturating_mul
saturating_mul(a, b) ==
    LET p == BigMul(a, b)
    IN  IF BigLeq(p, U64_MAX) THEN p ELSE U64_MAX

\* T::DbWeight::get().reads(n): n reads at the runtime's cost per read.
reads(n) == saturating_mul(dbRead, n)

\* T::DbWeight::get().writes(n): n writes at the runtime's cost per write.
writes(n) == saturating_mul(dbWrite, n)

\* The method chain  t1.saturating_add(t2).saturating_add(t3)...  over the
\* terms t in source order.
RECURSIVE ChainFrom(_, _, _)
ChainFrom(a, t, i) ==
    IF i > Len(t) THEN a ELSE ChainFrom(saturating_add(a, t[i]), t, i + 1)

Chain(t) == ChainFrom(t[1], t, 2)

-----------------------------------------------------------------------------
(* impl pallet_identity::WeightInfo for WeightInfo<T>                      *)

\* add_registrar with the per-registrar coefficient of set_fee.
add_registrar_terms_wrong_coefficient(r) ==
    << AsWeight(27481000),
       saturating_mul(AsWeight(265000), r),
       reads(AsWeight(1)),
       writes(AsWeight(1)) >>

\* fn add_registrar, lines 46-52
add_registrar_terms(r) ==
    << AsWeight(27481000),
       saturating_mul(AsWeight(300000), r),
       reads(AsWeight(1)),
       writes(AsWeight(1)) >>

add_registrar(r) == Chain(add_registrar_terms(r))

\* set_identity with the info-length term scaled by the registrar count as
\* well.
set_identity_terms_cross(r, x) ==
    << AsWeight(71220000),
       saturating_mul(AsWeight(269000), r),
       saturating_mul(saturating_mul(AsWeight(1814000), x), r),
       reads(AsWeight(1)),
       writes(AsWeight(1)) >>

\* fn set_identity, lines 53-61
set_identity_terms(r, x) ==
    << AsWeight(71220000),
       saturating_mul(AsWeight(269000), r),
       saturating_mul(AsWeight(1814000), x),
       reads(AsWeight(1)),
       writes(AsWeight(1)) >>

set_identity(r, x) == Chain(set_identity_terms(r, x))

\* set_subs_new with 1 + s instead of 1 * s reads per sub-identity.
set_subs_new_terms_add_for_mul(s) ==
    << AsWeight(52505000),
       saturating_mul(AsWeight(9913000), s),
       reads(AsWeight(2)),
       reads(saturating_add(AsWeight(1), s)),
       writes(AsWeight(1)),
       writes(saturating_mul(AsWeight(1), s)) >>

\* fn set_subs_new, lines 62-70
set_subs_new_terms(s) ==
    << AsWeight(52505000),
       saturating_mul(AsWeight(9913000), s),
       reads(AsWeight(2)),
       reads(saturating_mul(AsWeight(1), s)),
       writes(AsWeight(1)),
       writes(saturating_mul(AsWeight(1), s)) >>

set_subs_new(s) == Chain(set_subs_new_terms(s))

\* set_subs_old with p * p instead of 1 * p writes.
set_subs_old_terms_quadratic(p) ==
    << AsWeight(47853000),
       saturating_mul(AsWeight(3432000), p),
       reads(AsWeight(2)),
       writes(AsWeight(1)),
       writes(saturating_mul(p, p)) >>

\* fn set_subs_old, lines 71-78
set_subs_old_terms(p) ==
    << AsWeight(47853000),
       saturating_mul(AsWeight(3432000), p),
       reads(AsWeight(2)),
       writes(AsWeight(1)),
       writes(saturating_mul(AsWeight(1), p)) >>

set_subs_old(p) == Chain(set_subs_old_terms(p))

\* fn clear_identity, lines 79-90
clear_identity_terms(r, s, x) ==
    << AsWeight(62074000),
       saturating_mul(AsWeight(169000), r),
       saturating_mul(AsWeight(3436000), s),
       saturating_mul(AsWeight(1058000), x),
       reads(AsWeight(2)),
       writes(AsWeight(2)),
       writes(saturating_mul(AsWeight(1), s)) >>

clear_identity(r, s, x) == Chain(clear_identity_terms(r, s, x))

\* fn request_judgement, lines 91-99
request_judgement_terms(r, x) ==
    << AsWeight(72697000),
       saturating_mul(AsWeight(316000), r),
       saturating_mul(AsWeight(2064000), x),
       reads(AsWeight(2)),
       writes(AsWeight(1)) >>

request_judgement(r, x) == Chain(request_judgement_terms(r, x))

\* fn cancel_request, lines 100-108
cancel_request_terms(r, x) ==
    << AsWeight(62349000),
       saturating_mul(AsWeight(203000), r),
       saturating_mul(AsWeight(2048000), x),
       reads(AsWeight(1)),
       writes(AsWeight(1)) >>

cancel_request(r, x) == Chain(cancel_request_terms(r, x))

\* fn set_fee, lines 109-115
set_fee_terms(r) ==
    << AsWeight(10602000),
       saturating_mul(AsWeight(265000), r),
       reads(AsWeight(1)),
       writes(AsWeight(1)) >>

set_fee(r) == Chain(set_fee_terms(r))

\* fn set_account_id, lines 116-122
set_account_id_terms(r) ==
    << AsWeight(12087000),
       saturating_mul(AsWeight(264000), r),
       reads(AsWeight(1)),
       writes(AsWeight(1)) >>

set_account_id(r) == Chain(set_account_id_terms(r))

\* fn set_fields, lines 123-129
set_fields_terms(r) ==
    << AsWeight(10578000),
       saturating_mul(AsWeight(268000), r),
       reads(AsWeight(1)),
       writes(AsWeight(1)) >>

set_fields(r) == Chain(set_fields_terms(r))

\* fn provide_judgement, lines 130-138
provide_judgement_terms(r, x) ==
    << AsWeight(48552000),
       saturating_mul(AsWeight(279000), r),
       saturating_mul(AsWeight(2067000), x),
       reads(AsWeight(2)),
       writes(AsWeight(1)) >>

provide_judgement(r, x) == Chain(provide_judgement_terms(r, x))

\* kill_identity with s * s instead of 1 * s writes.
kill_identity_terms_quadratic(r, s, x) ==
    << AsWeight(60031000),
       saturating_mul(AsWeight(140000), r),
       saturating_mul(AsWeight(3423000), s),
       saturating_mul(AsWeight(3000), x),
       reads(AsWeight(3)),
       writes(AsWeight(3)),
       writes(saturating_mul(s, s)) >>

\* fn kill_identity, lines 139-150
kill_identity_terms(r, s, x) ==
    << AsWeight(60031000),
       saturating_mul(AsWeight(140000), r),
       saturating_mul(AsWeight(3423000), s),
       saturating_mul(AsWeight(3000), x),
       reads(AsWeight(3)),
       writes(AsWeight(3)),
       writes(saturating_mul(AsWeight(1), s)) >>

kill_identity(r, s, x) == Chain(kill_identity_terms(r, s, x))

\* fn add_sub, lines 151-157
add_sub_terms(s) ==
    << AsWeight(71751000),
       saturating_mul(AsWeight(185000), s),
       reads(AsWeight(3)),
       writes(AsWeight(2)) >>

add_sub(s) == Chain(add_sub_terms(s))

\* fn rename_sub, lines 158-164
rename_sub_terms(s) ==
    << AsWeight(23607000),
       saturating_mul(AsWeight(23000), s),
       reads(AsWeight(2)),
       writes(AsWeight(1)) >>

rename_sub(s) == Chain(rename_sub_terms(s))

\* fn remove_sub, lines 165-171
remove_sub_terms(s) ==
    << AsWeight(68696000),
       saturating_mul(AsWeight(160000), s),
       reads(AsWeight(3)),
       writes(AsWeight(2)) >>

remove_sub(s) == Chain(remove_sub_terms(s))

\* fn quit_sub, lines 172-178
quit_sub_terms(s) ==
    << AsWeight(45448000),
       saturating_mul(AsWeight(155000), s),
       reads(AsWeight(2)),
       writes(AsWeight(2)) >>

quit_sub(s) == Chain(quit_sub_terms(s))

Ops ==
    { "add_registrar",
      "set_identity",
      "set_subs_new",
      "set_subs_old",
      "clear_identity",
      "request_judgement",
      "cancel_request",
      "set_fee",
      "set_account_id",
      "set_fields",
      "provide_judgement",
      "kill_identity",
      "add_sub",
      "rename_sub",
      "remove_sub",
      "quit_sub" }

\* The number of u32 parameters in each function's signature.
Arity(op) ==
    CASE op = "add_registrar" -> 1
      [] op = "set_identity" -> 2
      [] op = "set_subs_new" -> 1
      [] op = "set_subs_old" -> 1
      [] op = "clear_identity" -> 3
      [] op = "request_judgement" -> 2
      [] op = "cancel_request" -> 2
      [] op = "set_fee" -> 1
      [] op = "set_account_id" -> 1
      [] op = "set_fields" -> 1
      [] op = "provide_judgement" -> 2
      [] op = "kill_identity" -> 3
      [] op = "add_sub" -> 1
      [] op = "rename_sub" -> 1
      [] op = "remove_sub" -> 1
      [] op = "quit_sub" -> 1

\* The terms of op's chain for the parameter tuple a.
Terms(op, a) ==
    CASE op = "add_registrar" -> add_registrar_terms(a[1])
      [] op = "set_identity" -> set_identity_terms(a[1], a[2])
      [] op = "set_subs_new" -> set_subs_new_terms(a[1])
      [] op = "set_subs_old" -> set_subs_old_terms(a[1])
      [] op = "clear_identity" -> clear_identity_terms(a[1], a[2], a[3])
      [] op = "request_judgement" -> request_judgement_terms(a[1], a[2])
      [] op = "cancel_request" -> cancel_request_terms(a[1], a[2])
      [] op = "set_fee" -> set_fee_terms(a[1])
      [] op = "set_account_id" -> set_account_id_terms(a[1])
      [] op = "set_fields" -> set_fields_terms(a[1])
      [] op = "provide_judgement" -> provide_judgement_terms(a[1], a[2])
      [] op = "kill_identity" -> kill_identity_terms(a[1], a[2], a[3])
      [] op = "add_sub" -> add_sub_terms(a[1])
      [] op = "rename_sub" -> rename_sub_terms(a[1])
      [] op = "remove_sub" -> remove_sub_terms(a[1])
      [] op = "quit_sub" -> quit_sub_terms(a[1])

\* pallet_identity::WeightInfo: the weight of op for the parameter tuple a.
WeightOf(op, a) ==
    CASE op = "add_registrar" -> add_registrar(a[1])
      [] op = "set_identity" -> set_identity(a[1], a[2])
      [] op = "set_subs_new" -> set_subs_new(a[1])
      [] op = "set_subs_old" -> set_subs_old(a[1])
      [] op = "clear_identity" -> clear_identity(a[1], a[2], a[3])
      [] op = "request_judgement" -> request_judgement(a[1], a[2])
      [] op = "cancel_request" -> cancel_request(a[1], a[2])
      [] op = "set_fee" -> set_fee(a[1])
      [] op = "set_account_id" -> set_account_id(a[1])
      [] op = "set_fields" -> set_fields(a[1])
      [] op = "provide_judgement" -> provide_judgement(a[1], a[2])
      [] op = "kill_identity" -> kill_identity(a[1], a[2], a[3])
      [] op = "add_sub" -> add_sub(a[1])
      [] op = "rename_sub" -> rename_sub(a[1])
      [] op = "remove_sub" -> remove_sub(a[1])
      [] op = "quit_sub" -> quit_sub(a[1])

-----------------------------------------------------------------------------
(* Inputs.                                                                 *)

MaxSmall == 2

MaxRealisticCost == 1000000000

\* 2^31 - 1: the largest count whose double is still a u32.
HalfU32 == ToBig(2147483647)

\* u32 parameter values of the functions of several parameters: the small
\* counts and the top of the range.
TupleVals == { ToBig(n) : n \in 0..MaxSmall } \cup { U32_MAX }

\* u32 parameter values of the functions of one parameter: 10 and the half
\* of the range as well.
ParamVals == TupleVals \cup { ToBig(10), HalfU32 }

\* 2^62: four reads or writes at this cost pass u64::MAX, three do not.
TwoPow62 == BigMul(ToBig(16384), BigMul(ToBig(65536), BigMul(ToBig(65536), ToBig(65536))))

\* Costs per read and per write a runtime may configure (u64).
Costs == { ToBig(0), ToBig(1), ToBig(MaxRealisticCost), TwoPow62, U64_MAX }

NoCall == [op |-> "none", args |-> <<>>]

None == <<-1>>

-----------------------------------------------------------------------------
(* The dispatcher asks for the weight of one call at a time: each action   *)
(* is one whole weight function applied to parameters of the call.         *)

Quiet == pending = <<>> /\ acc = <<>> /\ frames = <<>> /\ first = None

Init ==
    /\ dbRead \in Costs
    /\ dbWrite \in Costs
    /\ call = NoCall
    /\ ret = None
    /\ Quiet

Dispatch(op, a, w) ==
    /\ call = NoCall
    /\ call' = [op |-> op, args |-> a]
    /\ ret' = w
    /\ UNCHANGED <<dbRead, dbWrite, pending, acc, frames, first>>

add_registrar_call ==
    \E r \in ParamVals :
        Dispatch("add_registrar", <<r>>, add_registrar(r))

set_identity_call ==
    \E r, x \in TupleVals :
        Dispatch("set_identity", <<r, x>>, set_identity(r, x))

set_subs_new_call ==
    \E s \in ParamVals :
        Dispatch("set_subs_new", <<s>>, set_subs_new(s))

set_subs_old_call ==
    \E p \in ParamVals :
        Dispatch("set_subs_old", <<p>>, set_subs_old(p))

clear_identity_call ==
    \E r, s, x \in TupleVals :
        Dispatch("clear_identity", <<r, s, x>>, clear_identity(r, s, x))

request_judgement_call ==
    \E r, x \in TupleVals :
        Dispatch("request_judgement", <<r, x>>, request_judgement(r, x))

cancel_request_call ==
    \E r, x \in TupleVals :
        Dispatch("cancel_request", <<r, x>>, cancel_request(r, x))

set_fee_call ==
    \E r \in ParamVals :
        Dispatch("set_fee", <<r>>, set_fee(r))

set_account_id_call ==
    \E r \in ParamVals :
        Dispatch("set_account_id", <<r>>, set_account_id(r))

set_fields_call ==
    \E r \in ParamVals :
        Dispatch("set_fields", <<r>>, set_fields(r))

provide_judgement_call ==
    \E r, x \in TupleVals :
        Dispatch("provide_judgement", <<r, x>>, provide_judgement(r, x))

kill_identity_call ==
    \E r, s, x \in TupleVals :
        Dispatch("kill_identity", <<r, s, x>>, kill_identity(r, s, x))

add_sub_call ==
    \E s \in ParamVals :
        Dispatch("add_sub", <<s>>, add_sub(s))

rename_sub_call ==
    \E s \in ParamVals :
        Dispatch("rename_sub", <<s>>, rename_sub(s))

remove_sub_call ==
    \E s \in ParamVals :
        Dispatch("remove_sub", <<s>>, remove_sub(s))

quit_sub_call ==
    \E s \in ParamVals :
        Dispatch("quit_sub", <<s>>, quit_sub(s))

\* The dispatcher has accounted the weight and moves to the next call.
Consume ==
    /\ call # NoCall
    /\ call' = NoCall
    /\ ret' = None
    /\ UNCHANGED <<dbRead, dbWrite, pending, acc, frames, first>>

Next ==
    \/ add_registrar_call
    \/ set_identity_call
    \/ set_subs_new_call
    \/ set_subs_old_call
    \/ clear_identity_call
    \/ request_judgement_call
    \/ cancel_request_call
    \/ set_fee_call
    \/ set_account_id_call
    \/ set_fields_call
    \/ provide_judgement_call
    \/ kill_identity_call
    \/ add_sub_call
    \/ rename_sub_call
    \/ remove_sub_call
    \/ quit_sub_call
    \/ Consume

Spec == Init /\ [][Next]_vars

-----------------------------------------------------------------------------
(* The documented cost model: for each function the affine expression      *)
(*   base + SUM coef[i]*param[i]                                           *)
(*        + (reads  + SUM readsPer[i]*param[i])  * cost per read           *)
(*        + (writes + SUM writesPer[i]*param[i]) * cost per write          *)
(* in unbounded integers.  The properties below compare the code's         *)
(* saturating chains with it.                                              *)

Affine(op) ==
    CASE op = "add_registrar" ->
           [base |-> 27481000, coef |-> <<300000>>, reads |-> 1, readsPer |-> <<0>>,
            writes |-> 1, writesPer |-> <<0>>]
      [] op = "set_identity" ->
           [base |-> 71220000, coef |-> <<269000, 1814000>>, reads |-> 1, readsPer |-> <<0, 0>>,
            writes |-> 1, writesPer |-> <<0, 0>>]
      [] op = "set_subs_new" ->
           [base |-> 52505000, coef |-> <<9913000>>, reads |-> 2, readsPer |-> <<1>>,
            writes |-> 1, writesPer |-> <<1>>]
      [] op = "set_subs_old" ->
           [base |-> 47853000, coef |-> <<3432000>>, reads |-> 2, readsPer |-> <<0>>,
            writes |-> 1, writesPer |-> <<1>>]
      [] op = "clear_identity" ->
           [base |-> 62074000, coef |-> <<169000, 3436000, 1058000>>, reads |-> 2, readsPer |-> <<0, 0, 0>>,
            writes |-> 2, writesPer |-> <<0, 1, 0>>]
      [] op = "request_judgement" ->
           [base |-> 72697000, coef |-> <<316000, 2064000>>, reads |-> 2, readsPer |-> <<0, 0>>,
            writes |-> 1, writesPer |-> <<0, 0>>]
      [] op = "cancel_request" ->
           [base |-> 62349000, coef |-> <<203000, 2048000>>, reads |-> 1, readsPer |-> <<0, 0>>,
            writes |-> 1, writesPer |-> <<0, 0>>]
      [] op = "set_fee" ->
           [base |-> 10602000, coef |-> <<265000>>, reads |-> 1, readsPer |-> <<0>>,
            writes |-> 1, writesPer |-> <<0>>]
      [] op = "set_account_id" ->
           [base |-> 12087000, coef |-> <<264000>>, reads |-> 1, readsPer |-> <<0>>,
            writes |-> 1, writesPer |-> <<0>>]
      [] op = "set_fields" ->
           [base |-> 10578000, coef |-> <<268000>>, reads |-> 1, readsPer |-> <<0>>,
            writes |-> 1, writesPer |-> <<0>>]
      [] op = "provide_judgement" ->
           [base |-> 48552000, coef |-> <<279000, 2067000>>, reads |-> 2, readsPer |-> <<0, 0>>,
            writes |-> 1, writesPer |-> <<0, 0>>]
      [] op = "kill_identity" ->
           [base |-> 60031000, coef |-> <<140000, 3423000, 3000>>, reads |-> 3, readsPer |-> <<0, 0, 0>>,
            writes |-> 3, writesPer |-> <<0, 1, 0>>]
      [] op = "add_sub" ->
           [base |-> 71751000, coef |-> <<185000>>, reads |-> 3, readsPer |-> <<0>>,
            writes |-> 2, writesPer |-> <<0>>]
      [] op = "rename_sub" ->
           [base |-> 23607000, coef |-> <<23000>>, reads |-> 2, readsPer |-> <<0>>,
            writes |-> 1, writesPer |-> <<0>>]
      [] op = "remove_sub" ->
           [base |-> 68696000, coef |-> <<160000>>, reads |-> 3, readsPer |-> <<0>>,
            writes |-> 2, writesPer |-> <<0>>]
      [] op = "quit_sub" ->
           [base |-> 45448000, coef |-> <<155000>>, reads |-> 2, readsPer |-> <<0>>,
            writes |-> 2, writesPer |-> <<0>>]

RECURSIVE DotFrom(_, _, _)
DotFrom(c, a, i) ==
    IF i > Len(a) THEN <<>>
    ELSE BigAdd(BigMul(ToBig(c[i]), a[i]), DotFrom(c, a, i + 1))

\* SUM c[i] * a[i]
Dot(c, a) == DotFrom(c, a, 1)

\* The affine expression E of op at the parameters a, never clamped.
Exact(op, a) ==
    LET f == Affine(op)
    IN  BigAdd(BigAdd(ToBig(f.base), Dot(f.coef, a)),
               BigAdd(BigMul(dbRead, BigAdd(ToBig(f.reads), Dot(f.readsPer, a))),
                      BigMul(dbWrite, BigAdd(ToBig(f.writes), Dot(f.writesPer, a)))))

\* min(2^64 - 1, e)
Clamp(e) == IF BigLeq(e, U64_MAX) THEN e ELSE U64_MAX

Called == call # NoCall

AllZero(a) == \A i \in 1..Len(a) : a[i] = <<>>

\* The running totals of op's chain at a: after the base, after each term.
Running(op, a) ==
    LET t == Terms(op, a)
    IN  { Chain(SubSeq(t, 1, k)) : k \in 1..Len(t) }

\* C1: raising one parameter of a call, the others and the two provider
\* costs held fixed, never lowers the returned weight, saturated or not.
C1_Monotone ==
    Called =>
        \A i \in 1..Len(call.args) : \A v \in ParamVals :
            BigLeq(call.args[i], v) =>
                BigLeq(ret, WeightOf(call.op, [call.args EXCEPT ![i] = v]))

\* A call that has saturated because of a parameter (with that parameter 0
\* it does not) and whose parameters can all still grow.
C1_Witness ==
    /\ Called
    /\ ret = U64_MAX
    /\ \A i \in 1..Len(call.args) : BigLt(call.args[i], U32_MAX)
    /\ \E i \in 1..Len(call.args) :
           BigLt(WeightOf(call.op, [call.args EXCEPT ![i] = <<>>]), U64_MAX)

\* C2 as stated: a parameter at u32::MAX makes the weight u64::MAX.
C2_MaxParamSaturates ==
    (Called /\ \E i \in 1..Len(call.args) : call.args[i] = U32_MAX)
        => ret = U64_MAX

\* C2 amended: with a parameter at u32::MAX the weight is u64::MAX exactly
\* when the affine expression reaches 2^64 - 1; otherwise it is that
\* expression, below u64::MAX.  A value is returned in either case.
C2_MaxParamClamps ==
    (Called /\ \E i \in 1..Len(call.args) : call.args[i] = U32_MAX)
        => /\ ret # None
           /\ (ret = U64_MAX) <=> BigLeq(U64_MAX, Exact(call.op, call.args))
           /\ BigLt(ret, U64_MAX) => ret = Exact(call.op, call.args)

\* A parameter at u32::MAX with a saturated weight (a provider cost near
\* u64::MAX).
C2_Witness ==
    /\ Called
    /\ \E i \in 1..Len(call.args) : call.args[i] = U32_MAX
    /\ ret = U64_MAX
    /\ dbWrite = ToBig(0)

\* C3: every evaluation returns min(2^64 - 1, E), E the affine expression in
\* unbounded integers; a running total that has clamped stays clamped.
C3_ClampNeverWrap ==
    Called =>
        /\ ret # None
        /\ BigLeq(ret, U64_MAX)
        /\ ret = Clamp(Exact(call.op, call.args))
        /\ U64_MAX \in Running(call.op, call.args) => ret = U64_MAX

\* An evaluation whose running total clamps before the last term is added
\* and whose affine expression exceeds 2^64 - 1.
C3_Witness ==
    /\ Called
    /\ LET t == Terms(call.op, call.args)
       IN  /\ Chain(SubSeq(t, 1, Len(t) - 1)) = U64_MAX
           /\ t[Len(t)] # <<>>
    /\ BigLt(U64_MAX, Exact(call.op, call.args))
    /\ ret = U64_MAX

\* C4: with every parameter 0 a function returns its base cost plus its
\* fixed reads and writes at the provider's costs (a saturating sum), with
\* nothing from the parameter-scaled terms.
C4_ZeroBaseline ==
    (Called /\ AllZero(call.args)) =>
        LET f == Affine(call.op)
        IN  ret = Clamp(BigAdd(ToBig(f.base),
                               BigAdd(BigMul(ToBig(f.reads), dbRead),
                                      BigMul(ToBig(f.writes), dbWrite))))

\* kill_identity(0, 0, 0) at one unit per read and per write:
\* 60_031_000 + 3 + 3.
C4_Witness ==
    /\ call = [op |-> "kill_identity", args |-> <<ToBig(0), ToBig(0), ToBig(0)>>]
    /\ dbRead = ToBig(1)
    /\ dbWrite = ToBig(1)
    /\ ret = ToBig(60031006)

\* C6: add_registrar has one read, one write and one linear term in r:
\* at unit costs add_registrar(0) = 27_481_000 + 2 and add_registrar(10) is
\* 10 * 300_000 more; without saturation
\* add_registrar(r) = 27_481_000 + 300_000 * r + read + write.
C6_AddRegistrar ==
    (Called /\ call.op = "add_registrar") =>
        LET r    == call.args[1]
            unit == dbRead = ToBig(1) /\ dbWrite = ToBig(1)
            e    == BigAdd(BigAdd(ToBig(27481000), BigMul(ToBig(300000), r)),
                           BigAdd(dbRead, dbWrite))
        IN  /\ (unit /\ r = ToBig(0)) => ret = ToBig(27481002)
            /\ (unit /\ r = ToBig(10)) =>
                   /\ ret = ToBig(30481002)
                   /\ ret = BigAdd(add_registrar(ToBig(0)), ToBig(3000000))
            /\ BigLeq(e, U64_MAX) => ret = e

\* add_registrar(10) at unit costs.
C6_Witness ==
    /\ call = [op |-> "add_registrar", args |-> <<ToBig(10)>>]
    /\ dbRead = ToBig(1)
    /\ dbWrite = ToBig(1)
    /\ ret = ToBig(30481002)

Zeroed(a, i) == [a EXCEPT ![i] = <<>>]

\* C7: for a function of two or more parameters and inputs that do not
\* saturate, what one parameter adds does not depend on another:
\* f(a, b) - f(0, b) = f(a, 0) - f(0, 0), the remaining parameters fixed.
C7_NoCrossTerm ==
    (Called /\ Len(call.args) >= 2
            /\ BigLeq(Exact(call.op, call.args), U64_MAX)) =>
        \A i, j \in 1..Len(call.args) :
            i < j =>
                BigAdd(ret, WeightOf(call.op, Zeroed(Zeroed(call.args, i), j)))
                  = BigAdd(WeightOf(call.op, Zeroed(call.args, i)),
                           WeightOf(call.op, Zeroed(call.args, j)))

\* A three-parameter call with every parameter positive and no saturation.
C7_Witness ==
    /\ Called
    /\ Len(call.args) = 3
    /\ \A i \in 1..3 : call.args[i] = U32_MAX
    /\ dbWrite = ToBig(MaxRealisticCost)
    /\ BigLt(ret, U64_MAX)

\* C8: in set_subs_new and set_subs_old the count scales the linear term
\* and the writes, one write per unit (and one read per unit in
\* set_subs_new); without saturation f(2n) - f(0) = 2 * (f(n) - f(0)).
C8_SetSubsProportional ==
    (Called /\ call.op \in {"set_subs_new", "set_subs_old"}) =>
        LET n    == call.args[1]
            two  == BigAdd(n, n)
            succ == BigAdd(n, ToBig(1))
            f0   == WeightOf(call.op, <<ToBig(0)>>)
            unit == IF call.op = "set_subs_new"
                    THEN BigAdd(ToBig(9913000), BigAdd(dbRead, dbWrite))
                    ELSE BigAdd(ToBig(3432000), dbWrite)
        IN  /\ (BigLeq(two, U32_MAX) /\ BigLeq(Exact(call.op, <<two>>), U64_MAX))
                 => BigAdd(WeightOf(call.op, <<two>>), f0) = BigAdd(ret, ret)
            /\ (BigLeq(succ, U32_MAX) /\ BigLeq(Exact(call.op, <<succ>>), U64_MAX))
                 => WeightOf(call.op, <<succ>>) = BigAdd(ret, unit)

\* set_subs_old at 2^31 - 1 sub-identities, whose double is still a u32,
\* with a positive cost per write and no saturation at the double.
C8_Witness ==
    /\ call = [op |-> "set_subs_old", args |-> <<HalfU32>>]
    /\ dbWrite = ToBig(MaxRealisticCost)
    /\ BigLt(WeightOf("set_subs_old", <<BigAdd(HalfU32, HalfU32)>>), U64_MAX)
    /\ ret # None

\* C10: with both provider costs at most 1_000_000_000 no u32 parameters
\* make any product, any term or any running total clamp: the weight is
\* below u64::MAX and equals the affine expression.
C10_NoSaturationInDomain ==
    (Called /\ BigLeq(dbRead, ToBig(MaxRealisticCost))
            /\ BigLeq(dbWrite, ToBig(MaxRealisticCost))) =>
        /\ BigLt(Exact(call.op, call.args), U64_MAX)
        /\ \A w \in Running(call.op, call.args) : BigLt(w, U64_MAX)
        /\ BigLt(ret, U64_MAX)
        /\ ret = Exact(call.op, call.args)

\* set_subs_new at u32::MAX with both costs 1_000_000_000: the largest
\* weight in the domain.
C10_Witness ==
    /\ call = [op |-> "set_subs_new", args |-> <<U32_MAX>>]
    /\ dbRead = ToBig(MaxRealisticCost)
    /\ dbWrite = ToBig(MaxRealisticCost)
    /\ BigLt(ret, U64_MAX)

-----------------------------------------------------------------------------
(* Summation order.  The same terms are added with saturating_add starting *)
(* from any one of them and continuing in any order; the source order is   *)
(* one of the runs.                                                        *)

\* 2^63: two such terms together pass u64::MAX, one alone does not.
TwoPow63 == BigMul(ToBig(32768), BigMul(ToBig(65536), BigMul(ToBig(65536), ToBig(65536))))

OrderParams == { ToBig(0), ToBig(MaxSmall), U32_MAX }

OrderCosts == { ToBig(1), TwoPow63, U64_MAX }

OrderInit ==
    /\ dbRead \in OrderCosts
    /\ dbWrite \in OrderCosts
    /\ call = NoCall
    /\ ret = None
    /\ Quiet

\* The terms of the call are evaluated; pending maps the position of each
\* term not yet added to its value.  The chain has no receiver yet.
OrderBegin ==
    /\ call = NoCall
    /\ \E op \in Ops : \E a \in [1..Arity(op) -> OrderParams] :
           /\ call' = [op |-> op, args |-> a]
           /\ pending' = Terms(op, a)
    /\ acc' = None
    /\ UNCHANGED <<dbRead, dbWrite, ret, frames, first>>

\* The first term taken is the receiver of the chain; every later one is
\* an argument of saturating_add.
OrderAdd ==
    /\ call # NoCall
    /\ \E i \in DOMAIN pending :
           /\ acc' = IF acc = None THEN pending[i]
                                   ELSE saturating_add(acc, pending[i])
           /\ pending' = [j \in DOMAIN pending \ {i} |-> pending[j]]
    /\ UNCHANGED <<dbRead, dbWrite, call, ret, frames, first>>

OrderReturn ==
    /\ call # NoCall
    /\ pending = <<>>
    /\ ret = None
    /\ ret' = acc
    /\ UNCHANGED <<dbRead, dbWrite, call, pending, acc, frames, first>>

OrderConsume ==
    /\ ret # None
    /\ call' = NoCall
    /\ ret' = None
    /\ acc' = <<>>
    /\ UNCHANGED <<dbRead, dbWrite, pending, frames, first>>

OrderNext == OrderBegin \/ OrderAdd \/ OrderReturn \/ OrderConsume

SpecOrder == OrderInit /\ [][OrderNext]_vars

\* C9: whatever the order in which the terms of a call are added, clamping
\* on the way or not, the total is the weight the source order returns.
C9_OrderIndependent ==
    /\ ret # None => ret = WeightOf(call.op, call.args)
    /\ (call # NoCall /\ pending = <<>>) => acc = WeightOf(call.op, call.args)

\* A run that is not in source order (the base cost is added last) whose
\* running total has already clamped, for a seven-term chain.
C9_Witness ==
    /\ call # NoCall
    /\ Len(Terms(call.op, call.args)) = 7
    /\ DOMAIN pending = {1}
    /\ acc = U64_MAX
    /\ dbRead = TwoPow63

-----------------------------------------------------------------------------
(* Concurrent callers.  Every caller evaluates the weight of the same call *)
(* against the same provider constants, one saturating_add of its own      *)
(* chain at a time, interleaved with the others, and may call again.       *)

NumCallers == 2

Callers == 1..NumCallers

ConcParams == { ToBig(0), U32_MAX }

ConcCosts == { ToBig(1), U64_MAX }

\* A caller's frame: where it is, the terms of its chain still to add, its
\* running total and the value returned to it.
Idle == [pc |-> "idle", todo |-> <<>>, acc |-> <<>>, ret |-> None]

ConcInit ==
    /\ dbRead \in ConcCosts
    /\ dbWrite \in ConcCosts
    /\ \E op \in Ops : \E a \in [1..Arity(op) -> ConcParams] :
           call = [op |-> op, args |-> a]
    /\ frames = [c \in Callers |-> Idle]
    /\ first = None
    /\ ret = None
    /\ pending = <<>>
    /\ acc = <<>>

\* A running total kept in one place for all callers: the total of whichever
\* caller is running.
SharedReceiver(c) ==
    frames[CHOOSE d \in Callers : frames[d].pc = "run"].acc

\* The receiver of caller c's next saturating_add: the temporary of c's own
\* chain.
Receiver(c) == frames[c].acc

\* The call starts: the base cost is the head of the chain.
Enter(c) ==
    /\ frames[c].pc = "idle"
    /\ LET t == Terms(call.op, call.args)
       IN  frames' = [frames EXCEPT ![c] =
                        [pc |-> "run", todo |-> Tail(t), acc |-> t[1], ret |-> None]]
    /\ UNCHANGED <<dbRead, dbWrite, call, ret, pending, acc, first>>

\* One .saturating_add(term) of the chain.
Step(c) ==
    /\ frames[c].pc = "run"
    /\ frames[c].todo # <<>>
    /\ frames' = [frames EXCEPT ![c].acc =
                                    saturating_add(Receiver(c), Head(frames[c].todo)),
                                ![c].todo = Tail(@)]
    /\ UNCHANGED <<dbRead, dbWrite, call, ret, pending, acc, first>>

\* The function returns the value of its chain; first keeps the first value
\* any caller got for this call.
Exit(c) ==
    /\ frames[c].pc = "run"
    /\ frames[c].todo = <<>>
    /\ frames' = [frames EXCEPT ![c] =
                    [pc |-> "done", todo |-> <<>>, acc |-> <<>>, ret |-> frames[c].acc]]
    /\ first' = IF first = None THEN frames[c].acc ELSE first
    /\ UNCHANGED <<dbRead, dbWrite, call, ret, pending, acc>>

\* The caller drops the value and is free to call again.
Leave(c) ==
    /\ frames[c].pc = "done"
    /\ frames' = [frames EXCEPT ![c] = Idle]
    /\ UNCHANGED <<dbRead, dbWrite, call, ret, pending, acc, first>>

ConcNext == \E c \in Callers : Enter(c) \/ Step(c) \/ Exit(c) \/ Leave(c)

SpecConc == ConcInit /\ [][ConcNext]_vars

\* C5: every evaluation of a call, repeated by one caller or interleaved
\* with other callers' evaluations, returns the same weight, the one the
\* parameters and the two provider constants determine; evaluating changes
\* neither the call nor the provider constants.
C5_Deterministic ==
    /\ [](\A c \in Callers :
              frames[c].pc = "done" =>
                  /\ frames[c].ret = first
                  /\ frames[c].ret = WeightOf(call.op, call.args))
    /\ [][UNCHANGED <<dbRead, dbWrite, call>>]_vars

\* Every caller holds a returned weight at once, for a three-parameter call
\* that saturates.
C5_Witness ==
    /\ \A c \in Callers : frames[c].pc = "done" /\ frames[c].ret = first
    /\ Len(call.args) = 3
    /\ first = U64_MAX

====
